---- MODULE Spec2Model ----
(***************************************************************************)
(* A model of chrome_cleaner.py (version 0.4): the category registry, the  *)
(* size accountant, the profile analyzer, the cleanup executor and the     *)
(* control flow of main().                                                 *)
(*                                                                         *)
(* A profile directory is a function from the four registry paths to a     *)
(* node.  A directory node is [exists, size]; a store node (an SQLite      *)
(* file) is [exists, size, valid, tables] where tables maps each table     *)
(* present in the schema to its number of rows and valid says whether the  *)
(* file is a well-formed database.                                         *)
(***************************************************************************)
EXTENDS Integers, Sequences, FiniteSets, TLC

\* ---------------------------------------------------------------- bounds
MaxTypes == 3       \* longest --types list handed to analyze/clean_profile
MaxRows == 1        \* most rows in a table of an input store
MaxBytes == 1       \* largest size of an input directory
MaxProcs == 2       \* most Chrome processes found running
NumProfiles == 2    \* most profile directories under User Data
MaxMainTypes == 2   \* longest --types list of a whole run of main()

\* ------------------------------------------------------- category registry
DATA_TYPE_MAPPING ==
    [ history    |-> [type |-> "sqlite",         path |-> "History",         table |-> "urls"],
      cookies    |-> [type |-> "sqlite_nocount", path |-> "Network/Cookies", table |-> "cookies"],
      cache      |-> [type |-> "folder",         path |-> "Cache",           table |-> ""],
      code_cache |-> [type |-> "folder",         path |-> "Code Cache",      table |-> ""] ]

Ids == DOMAIN DATA_TYPE_MAPPING

\* dict.get() of an identifier the registry lacks: None
NoConfig == [type |-> "None", path |-> "", table |-> ""]

Get(data_type) ==
    IF data_type \in Ids THEN DATA_TYPE_MAPPING[data_type] ELSE NoConfig

\* An identifier that is not in the registry (a typo on the command line).
Unknown == "bogus"

FolderPaths == {"Cache", "Code Cache"}
StorePaths == {"History", "Network/Cookies"}
Paths == FolderPaths \cup StorePaths

\* ------------------------------------------------------------ file system
AbsentDir == [exists |-> FALSE, size |-> 0]
AbsentStore == [exists |-> FALSE, size |-> 0, valid |-> FALSE, tables |-> <<>>]

\* The size of an SQLite file: one page for the header and schema, and the
\* pages of its rows.  A file that is not a database has one page of junk.
FileSize(valid, tables) ==
    IF ~valid THEN 1
    ELSE LET RECURSIVE Sum(_)
             Sum(D) == IF D = {} THEN 0
                       ELSE LET t == CHOOSE x \in D : TRUE
                            IN tables[t] + Sum(D \ {t})
         IN 1 + Sum(DOMAIN tables)

Store(valid, tables) ==
    [exists |-> TRUE, size |-> FileSize(valid, tables), valid |-> valid, tables |-> tables]

\* a populated folder
FullDir == [exists |-> TRUE, size |-> MaxBytes]

DirStates == {AbsentDir} \cup {[exists |-> TRUE, size |-> s] : s \in 0..MaxBytes}

StoreStates(names) ==
    {AbsentStore} \cup {Store(FALSE, <<>>)}
      \cup {Store(TRUE, t) : t \in UNION {[D -> 0..MaxRows] : D \in SUBSET names}}

TablesOf(path) == IF path = "History" THEN {"urls", "downloads"} ELSE {"cookies"}

ProfileStates ==
    { [p \in Paths |-> IF p = "Cache" THEN c ELSE IF p = "Code Cache" THEN cc
                       ELSE IF p = "History" THEN h ELSE k] :
        c \in DirStates, cc \in DirStates,
        h \in StoreStates(TablesOf("History")),
        k \in StoreStates(TablesOf("Network/Cookies")) }

RECURSIVE SeqsUpTo(_, _)
SeqsUpTo(S, n) ==
    IF n = 0 THEN {<<>>}
    ELSE LET shorter == SeqsUpTo(S, n - 1)
         IN shorter \cup {Append(s, x) : s \in {t \in shorter : Len(t) = n - 1}, x \in S}

\* args.types.split(','): never the empty list
TypeLists(n) == SeqsUpTo(Ids \cup {Unknown}, n) \ {<<>>}

\* ------------------------------------------------------------ Python values
\* A value of the "count" key: an int, None, or the "DB Error: ..." string.
IntVal(n) == [tag |-> "int", n |-> n]
NoneVal == [tag |-> "None", n |-> 0]
StrVal == [tag |-> "str", n |-> 0]

\* isinstance(v, int)
IsInt(v) == v.tag = "int"

\* ---------------------------------------------------------- size accountant
\* The sum of the sizes of the regular files under the folder; 0 when the
\* folder does not exist.
get_folder_size(folder) == IF ~folder.exists THEN 0 ELSE folder.size

\* -------------------------------------------------- sqlite3: reading a store
\* sqlite3.connect(':memory:'): a fresh database with an empty schema
MemoryDb == [valid |-> TRUE, tables |-> <<>>]

\* A mistaken backup, from the in-memory database into the profile's store.
BackupReversed(source, target) ==
    [ source |-> Store(target.valid, target.tables),
      target |-> target,
      raised |-> FALSE ]

\* source_conn.backup(mem_conn), source_conn opened with mode=ro: copies every
\* page of the source into the target; sqlite3.DatabaseError when the source
\* file is not a database.  The source is only read.
Backup(source, target) ==
    [ source |-> source,
      target |-> IF source.valid THEN [valid |-> TRUE, tables |-> source.tables]
                 ELSE target,
      raised |-> ~source.valid ]

\* SELECT name FROM sqlite_master WHERE type='table' AND name=...; fetchone()
TableExists(db, table) == table \in DOMAIN db.tables

\* SELECT COUNT(*) FROM table; fetchone()[0]
CountRows(db, table) == db.tables[table]

\* -------------------------------------------------------- profile analyzer
\* A report entry: {"size": s} of a folder has no "count" key.
FolderEntry(size) == [has_count |-> FALSE, count |-> NoneVal, size |-> size]
SqliteEntry(count, size) == [has_count |-> TRUE, count |-> count, size |-> size]

\* The entry of a store that does not exist, with the count of a countable
\* store mistaken for None.
MissingStoreEntryNone(config) == SqliteEntry(NoneVal, 0)

\* Lines 131-136: the entry of a store that does not exist.
MissingStoreEntry(config) ==
    IF config.type = "sqlite_nocount" THEN SqliteEntry(NoneVal, 0)
    ELSE SqliteEntry(IntVal(0), 0)

\* One iteration of the loop of analyze_profile for a recognized category:
\* the profile afterwards and the entry stored under report[data_type].
AnalyzeCategory(prof, config) ==
    IF config.type = "folder"
    THEN [prof |-> prof, entry |-> FolderEntry(get_folder_size(prof[config.path]))]
    ELSE LET db == prof[config.path] IN
         IF ~db.exists
         THEN [prof |-> prof, entry |-> MissingStoreEntry(config)]
         ELSE LET db_size == db.size IN
              IF config.type = "sqlite_nocount"
              THEN [prof |-> prof, entry |-> SqliteEntry(NoneVal, db_size)]
              ELSE LET b == Backup(db, MemoryDb)
                       after == [prof EXCEPT ![config.path] = b.source]
                   IN IF b.raised
                      THEN [prof |-> after, entry |-> SqliteEntry(StrVal, db_size)]
                      ELSE IF TableExists(b.target, config.table)
                           THEN [prof |-> after,
                                 entry |-> SqliteEntry(IntVal(CountRows(b.target, config.table)), db_size)]
                           ELSE [prof |-> after, entry |-> SqliteEntry(IntVal(0), db_size)]

\* An unrecognized identifier mistaken for the end of the list.
SkipUnknownStops(types) == <<>>

\* "if not config: continue": the rest of the list is still scanned.
SkipUnknown(types) == Tail(types)

\* analyze_profile(profile_path, types_to_scan), from a report built so far:
\* [prof |-> the profile afterwards, report |-> the dict returned].
RECURSIVE AnalyzeFrom(_, _, _)
AnalyzeFrom(prof, types, report) ==
    IF types = <<>> THEN [prof |-> prof, report |-> report]
    ELSE LET data_type == Head(types)
             config == Get(data_type)
         IN IF config = NoConfig
            THEN AnalyzeFrom(prof, SkipUnknown(types), report)
            ELSE LET r == AnalyzeCategory(prof, config)
                 IN AnalyzeFrom(r.prof, Tail(types), (data_type :> r.entry) @@ report)

analyze_profile(profile_path, types_to_scan) ==
    AnalyzeFrom(profile_path, types_to_scan, <<>>)

\* -------------------------------------------------- sqlite3: writing a store
\* sqlite3.connect(db_path): the file as committed, the tables as the
\* connection sees them, and whether a transaction is open.  The connection
\* has the module's default isolation level: a transaction is opened
\* implicitly before a DELETE and stays open until commit or rollback.
Connect(db) ==
    [file |-> db, tables |-> db.tables, in_transaction |-> FALSE, raised |-> FALSE]

\* conn.execute("DELETE FROM <table>"): sqlite3.DatabaseError when the file is
\* not a database, sqlite3.OperationalError when there is no such table.
ExecuteDelete(conn, table) ==
    IF ~conn.file.valid \/ table \notin DOMAIN conn.tables
    THEN [conn EXCEPT !.raised = TRUE]
    ELSE [conn EXCEPT !.tables[table] = 0, !.in_transaction = TRUE]

\* A VACUUM that commits the open transaction before it runs.
ExecuteVacuumCommits(conn) ==
    [conn EXCEPT !.file = Store(TRUE, conn.tables), !.in_transaction = FALSE]

\* conn.execute("VACUUM"): SQLite refuses it inside a transaction
\* (sqlite3.OperationalError: cannot VACUUM from within a transaction);
\* otherwise the file is rebuilt from the committed tables.
ExecuteVacuum(conn) ==
    IF conn.in_transaction THEN [conn EXCEPT !.raised = TRUE]
    ELSE [conn EXCEPT !.file = Store(TRUE, conn.file.tables)]

\* Leaving "with sqlite3.connect(...) as conn": commit when the body ended
\* normally, rollback when it raised (the exception goes on to the caller).
ExitWith(conn) ==
    [ db |-> IF conn.raised THEN conn.file
             ELSE IF conn.in_transaction THEN Store(TRUE, conn.tables) ELSE conn.file,
      raised |-> conn.raised ]

\* with sqlite3.connect(path) as conn:
\*     conn.execute("DELETE FROM <table>"); conn.execute("VACUUM")
DeleteAndVacuum(db, table) ==
    LET c1 == ExecuteDelete(Connect(db), table)
        c2 == IF c1.raised THEN c1 ELSE ExecuteVacuum(c1)
    IN ExitWith(c2)

\* --------------------------------------------------------- cleanup executor
\* What can go wrong in one clean_profile call: the folders whose rmtree
\* raises OSError (a file in use, a permission).
FaultChoices == SUBSET FolderPaths

\* shutil.rmtree(folder_path): the folder is gone, or OSError is raised and
\* the folder stays (how much of its content was already removed is not
\* tracked: the folder keeps its size).
Rmtree(folder, path, faults) ==
    IF path \in faults
    THEN [folder |-> folder, raised |-> TRUE]
    ELSE [folder |-> AbsentDir, raised |-> FALSE]

\* Lines 179-188: the downloads table of History, cleared with the cache.
\* Its own "except sqlite3.Error" reports the failure and raises nothing.
BundledDownloads(prof) ==
    LET hist == prof["History"] IN
    IF hist.exists
    THEN LET r == DeleteAndVacuum(hist, "downloads")
         IN [prof |-> [prof EXCEPT !["History"] = r.db],
             bundled |-> IF r.raised THEN "FAILED" ELSE "Done"]
    ELSE [prof |-> prof, bundled |-> "History DB not found"]

\* Lines 173-197, the body of the try: the profile afterwards, what was
\* printed, and whether an exception left the body.
CleanBody(prof, data_type, config, faults) ==
    IF config.type = "folder"
    THEN LET folder == prof[config.path]
             rm == IF folder.exists THEN Rmtree(folder, config.path, faults)
                   ELSE [folder |-> folder, raised |-> FALSE]
             after == [prof EXCEPT ![config.path] = rm.folder]
         IN IF rm.raised
            THEN [prof |-> after, status |-> "", bundled |-> "", raised |-> TRUE]
            ELSE IF data_type = "cache"
                 THEN LET b == BundledDownloads(after)
                      IN [prof |-> b.prof, status |-> "Done", bundled |-> b.bundled,
                          raised |-> FALSE]
                 ELSE [prof |-> after, status |-> "Done", bundled |-> "", raised |-> FALSE]
    ELSE LET db == prof[config.path] IN
         IF db.exists
         THEN LET r == DeleteAndVacuum(db, config.table)
              IN [prof |-> [prof EXCEPT ![config.path] = r.db],
                  status |-> IF r.raised THEN "" ELSE "Done",
                  bundled |-> "", raised |-> r.raised]
         ELSE [prof |-> prof, status |-> "Not found", bundled |-> "", raised |-> FALSE]

\* A try without its except clause: the exception leaves clean_profile.
NoExcept(r) == r

\* Lines 172 and 198, "except Exception as e: print(FAILED...)"
TryExcept(r) ==
    IF r.raised THEN [r EXCEPT !.status = "FAILED", !.raised = FALSE] ELSE r

\* clean_profile(profile_path, types_to_clean) from a log built so far: the
\* profile afterwards, one log entry per category attempted, and whether an
\* exception left the function.
RECURSIVE CleanFrom(_, _, _, _)
CleanFrom(prof, types, faults, log) ==
    IF types = <<>> THEN [prof |-> prof, log |-> log, raised |-> FALSE]
    ELSE LET data_type == Head(types)
             config == Get(data_type)
         IN IF config = NoConfig
            THEN CleanFrom(prof, Tail(types), faults, log)
            ELSE LET r == TryExcept(CleanBody(prof, data_type, config, faults))
                     entry == [data_type |-> data_type, status |-> r.status,
                               bundled |-> r.bundled]
                 IN IF r.raised
                    THEN [prof |-> r.prof, log |-> log, raised |-> TRUE]
                    ELSE CleanFrom(r.prof, Tail(types), faults, Append(log, entry))

clean_profile(profile_path, types_to_clean, faults) ==
    CleanFrom(profile_path, types_to_clean, faults, <<>>)

\* range of a sequence
Range(s) == {s[j] : j \in DOMAIN s}

\* --------------------------------------------------------------- aggregator
\* Line 253: totals = {data_type: {"count": 0, "size": 0} for data_type in ...}
InitialTotals(types) ==
    [data_type \in Range(types) |-> [count |-> IntVal(0), size |-> 0]]

\* An error marker that turns the running total into the marker.
AddCountSticky(total, count) ==
    IF IsInt(count) /\ IsInt(total) THEN IntVal(total.n + count.n) ELSE StrVal

\* Lines 267-272: "if count is not None: if isinstance(count, int):
\* totals[data_type]["count"] += count"; any other count only changes the cell.
AddCount(total, count) ==
    IF count # NoneVal
    THEN IF IsInt(count) THEN IntVal(total.n + count.n) ELSE total
    ELSE total

\* Lines 260-279 for one profile's report: the totals afterwards.
RECURSIVE Accumulate(_, _, _)
Accumulate(tot, rep, types) ==
    IF types = <<>> THEN tot
    ELSE LET data_type == Head(types) IN
         IF data_type \in DOMAIN rep       \* value = report.get(data_type); if value:
         THEN LET value == rep[data_type]
                  count == IF value.has_count THEN value.count ELSE NoneVal
                  t == tot[data_type]
              IN Accumulate(
                   [tot EXCEPT ![data_type] =
                        [count |-> AddCount(t.count, count), size |-> t.size + value.size]],
                   rep, Tail(types))
         ELSE Accumulate(tot, rep, Tail(types))

\* Lines 282-292: the footer cells; config['type'] of an identifier the
\* registry lacks raises TypeError, and so does formatting a total that is
\* no number with "{count:,}".
FooterRaises(tot, types) ==
    \E j \in DOMAIN types :
        \/ Get(types[j]) = NoConfig
        \/ Get(types[j]).type = "sqlite" /\ ~IsInt(tot[types[j]].count)

Footer(tot, types) ==
    [j \in DOMAIN types |->
        IF Get(types[j]).type = "sqlite"
        THEN [has_count |-> TRUE, count |-> tot[types[j]].count, size |-> tot[types[j]].size]
        ELSE [has_count |-> FALSE, count |-> NoneVal, size |-> tot[types[j]].size]]

\* ------------------------------------------------------- process pre-flight
\* kill_chrome_processes without the loop over the processes still alive.
kill_chrome_processes_terminate_only(ps, found, stubborn) ==
    [p \in DOMAIN ps |-> IF p \in found \ stubborn THEN "gone" ELSE ps[p]]

\* kill_chrome_processes(procs): terminate() each; the ones in stubborn are
\* still alive when wait_procs times out after 3 s and are kill()ed.
kill_chrome_processes(ps, found, stubborn) ==
    LET terminated == [p \in DOMAIN ps |-> IF p \in found \ stubborn THEN "gone" ELSE ps[p]]
        alive == {p \in found : terminated[p] = "alive"}
    IN [p \in DOMAIN ps |-> IF p \in alive THEN "gone" ELSE terminated[p]]

\* Any input at the prompt taken for the confirmation.
ConfirmedAny(answer, expected) == answer # "KeyboardInterrupt"

\* Lines 215 and 310: confirm == "FORCE CLOSE", confirm == "YES"
Confirmed(answer, expected) == answer = expected

\* What input() can give at a prompt: the expected text, another text, or
\* Ctrl-C (KeyboardInterrupt).
Answers(expected) == {expected, "yes", "KeyboardInterrupt"}

\* =========================================================== state machine
VARIABLES
    pc,           \* where main() (or the harness) is
    args,         \* [clean, force_close, types]: the parsed command line
    procs,        \* process id -> "alive" | "gone": the Chrome processes
    chrome_procs, \* the processes find_chrome_processes() returned
    confirm,      \* the last answer read by input()
    profiles,     \* the profile directories, in get_profiles() order
    discovered,   \* the profile directories as get_profiles() found them
    idx,          \* the index of the next profile of the loop
    report,       \* the report of the last analyze_profile call
    totals,       \* the totals dict of the dry run
    footer,       \* the footer cells of the dry run
    before,       \* [prof, totals] right before the last analyze/clean call
    log,          \* what the last clean_profile call printed per category
    raised,       \* whether an exception left the last clean_profile call
    ncalls        \* how many times clean_profile was called

vars == <<pc, args, procs, chrome_procs, confirm, profiles, discovered, idx,
          report, totals, footer, before, log, raised, ncalls>>

NoSnapshot == [prof |-> <<>>, totals |-> <<>>]

\* The profiles a whole run of main() is given: populated folders and
\* cookies, and a History store that is absent, or no database, or populated
\* (the three outcomes of counting its rows: 0, the error marker, a number).
MainProfileStates ==
    { p \in ProfileStates :
        /\ p["Cache"] = FullDir
        /\ p["Code Cache"] = FullDir
        /\ p["Network/Cookies"] = Store(TRUE, [t \in {"cookies"} |-> MaxRows])
        /\ p["History"] \in
              {AbsentStore, Store(FALSE, <<>>),
               Store(TRUE, [t \in {"urls", "downloads"} |-> MaxRows])} }

\* The profiles analyze_profile is called on by itself: every state of the
\* Cache folder and of History's urls table; the paths whose content the
\* analyzer does not branch on are absent, or populated, or (stores) corrupt.
AnalyzeInputs ==
    { p \in ProfileStates :
        /\ p["Code Cache"] \in {AbsentDir, FullDir}
        /\ p["Network/Cookies"] \in
              {AbsentStore, Store(FALSE, <<>>), Store(TRUE, [t \in {"cookies"} |-> MaxRows])}
        /\ p["History"].valid =>
              /\ "downloads" \in DOMAIN p["History"].tables
              /\ p["History"].tables["downloads"] = MaxRows }

\* The profiles clean_profile is called on by itself: the folders absent or
\* populated, every state of History's urls table with the downloads table
\* missing or full, the cookies store absent, empty or full.
CleanInputs ==
    { p \in ProfileStates :
        /\ p["Cache"] \in {AbsentDir, FullDir}
        /\ p["Code Cache"] \in {AbsentDir, FullDir}
        /\ p["Network/Cookies"] \in
              {AbsentStore} \cup {Store(TRUE, [t \in {"cookies"} |-> n]) : n \in {0, MaxRows}}
        /\ "downloads" \in DOMAIN p["History"].tables =>
              p["History"].tables["downloads"] = MaxRows }

Init ==
    /\ pc = "start"
    /\ args \in [clean : BOOLEAN, force_close : BOOLEAN, types : TypeLists(MaxMainTypes)]
    /\ procs \in {[p \in 1..n |-> "alive"] : n \in 0..MaxProcs}
    /\ chrome_procs = {}
    /\ confirm = ""
    /\ profiles = <<>>
    /\ discovered = <<>>
    /\ idx = 1
    /\ report = <<>>
    /\ totals = <<>>
    /\ footer = <<>>
    /\ before = NoSnapshot
    /\ log = <<>>
    /\ raised = FALSE
    /\ ncalls = 0

\* Lines 208-226 up to the prompt: find_chrome_processes() and the branch on it.
FindChromeProcesses ==
    /\ pc = "start"
    /\ chrome_procs' = {p \in DOMAIN procs : procs[p] = "alive"}
    /\ pc' = IF chrome_procs' = {} THEN "user_data"
             ELSE IF args.force_close THEN "force_prompt" ELSE "exit"
    /\ UNCHANGED <<args, procs, confirm, profiles, discovered, idx, report, totals,
                   footer, before, log, raised, ncalls>>

\* Lines 213-223: the 'FORCE CLOSE' prompt.
ForceClosePrompt ==
    /\ pc = "force_prompt"
    /\ \E answer \in Answers("FORCE CLOSE") :
          /\ confirm' = answer
          /\ pc' = IF Confirmed(answer, "FORCE CLOSE") THEN "kill" ELSE "exit"
    /\ UNCHANGED <<args, procs, chrome_procs, profiles, discovered, idx, report, totals,
                   footer, before, log, raised, ncalls>>

\* Line 216-217: kill_chrome_processes(chrome_procs); time.sleep(1)
KillChromeProcesses ==
    /\ pc = "kill"
    /\ \E stubborn \in SUBSET chrome_procs :
          \/ /\ procs' = kill_chrome_processes(procs, chrome_procs, stubborn)
             /\ pc' = "user_data"
          \* psutil.AccessDenied from terminate() or kill(), psutil.NoSuchProcess
          \* from kill(): nothing in main() catches it
          \/ /\ procs' = [p \in DOMAIN procs |->
                             IF p \in chrome_procs \ stubborn THEN "gone" ELSE procs[p]]
             /\ pc' = "crashed"
    /\ UNCHANGED <<args, chrome_procs, confirm, profiles, discovered, idx, report, totals,
                   footer, before, log, raised, ncalls>>

\* Lines 228-239: the User Data directory and its profiles; the run ends when
\* there is none.
Discover ==
    /\ pc = "user_data"
    /\ \E found \in SeqsUpTo(MainProfileStates, NumProfiles) :
          /\ profiles' = found
          /\ discovered' = found
          /\ pc' = IF found = <<>> THEN "exit"
                   ELSE IF args.clean THEN "clean_prompt" ELSE "dry_run"
          /\ totals' = IF found # <<>> /\ ~args.clean THEN InitialTotals(args.types)
                       ELSE totals
    /\ UNCHANGED <<args, procs, chrome_procs, confirm, idx, report, footer, before, log,
                   raised, ncalls>>

\* Lines 255-280: one iteration of the dry run's loop over the profiles.
DryRunProfile ==
    /\ pc = "dry_run"
    /\ idx <= Len(profiles)
    /\ LET r == analyze_profile(profiles[idx], args.types) IN
          /\ before' = [prof |-> profiles[idx], totals |-> totals]
          /\ report' = r.report
          /\ profiles' = [profiles EXCEPT ![idx] = r.prof]
          /\ totals' = Accumulate(totals, r.report, args.types)
    /\ idx' = idx + 1
    /\ UNCHANGED <<pc, args, procs, chrome_procs, confirm, discovered, footer, log, raised,
                   ncalls>>

\* Lines 282-297: the footer, after the last profile.
DryRunFooter ==
    /\ pc = "dry_run"
    /\ idx > Len(profiles)
    /\ IF FooterRaises(totals, args.types)
       THEN pc' = "crashed" /\ footer' = footer
       ELSE pc' = "done" /\ footer' = Footer(totals, args.types)
    /\ UNCHANGED <<args, procs, chrome_procs, confirm, profiles, discovered, idx, report,
                   totals, before, log, raised, ncalls>>

\* Lines 304-316: the 'YES' prompt of clean mode.
CleanPrompt ==
    /\ pc = "clean_prompt"
    /\ \E answer \in Answers("YES") :
          /\ confirm' = answer
          /\ pc' = IF answer = "KeyboardInterrupt" THEN "exit"
                   ELSE IF Confirmed(answer, "YES") THEN "cleaning" ELSE "done"
    /\ UNCHANGED <<args, procs, chrome_procs, profiles, discovered, idx, report, totals,
                   footer, before, log, raised, ncalls>>

\* Lines 312-313: one iteration of "for profile in profiles: clean_profile(...)".
CleanNextProfile ==
    /\ pc = "cleaning"
    /\ idx <= Len(profiles)
    /\ \E faults \in FaultChoices :
          LET r == clean_profile(profiles[idx], args.types, faults) IN
             /\ before' = [prof |-> profiles[idx], totals |-> totals]
             /\ profiles' = [profiles EXCEPT ![idx] = r.prof]
             /\ log' = r.log
             /\ raised' = r.raised
             /\ pc' = IF r.raised THEN "crashed" ELSE pc
    /\ idx' = idx + 1
    /\ ncalls' = ncalls + 1
    /\ UNCHANGED <<args, procs, chrome_procs, confirm, discovered, report, totals, footer>>

\* Line 314: "Cleanup complete."
CleanupComplete ==
    /\ pc = "cleaning"
    /\ idx > Len(profiles)
    /\ pc' = "done"
    /\ UNCHANGED <<args, procs, chrome_procs, confirm, profiles, discovered, idx, report,
                   totals, footer, before, log, raised, ncalls>>

Next ==
    \/ FindChromeProcesses
    \/ ForceClosePrompt
    \/ KillChromeProcesses
    \/ Discover
    \/ DryRunProfile
    \/ DryRunFooter
    \/ CleanPrompt
    \/ CleanNextProfile
    \/ CleanupComplete

Spec == Init /\ [][Next]_vars

\* ------------------------------------------- analyze_profile called by itself
Harness(start, inputs) ==
    /\ pc = start
    /\ args \in [clean : {FALSE}, force_close : {FALSE}, types : TypeLists(MaxTypes)]
    /\ procs = <<>>
    /\ chrome_procs = {}
    /\ confirm = ""
    /\ profiles \in {<<p>> : p \in inputs}
    /\ discovered = profiles
    /\ idx = 1
    /\ report = <<>>
    /\ totals = <<>>
    /\ footer = <<>>
    /\ before = NoSnapshot
    /\ log = <<>>
    /\ raised = FALSE
    /\ ncalls = 0

InitAnalyze == Harness("analyze_call", AnalyzeInputs)

\* report = analyze_profile(profile, types_to_scan)
AnalyzeCall ==
    /\ pc = "analyze_call"
    /\ LET r == analyze_profile(profiles[1], args.types) IN
          /\ before' = [prof |-> profiles[1], totals |-> totals]
          /\ report' = r.report
          /\ profiles' = <<r.prof>>
    /\ pc' = "analyze_returned"
    /\ UNCHANGED <<args, procs, chrome_procs, confirm, discovered, idx, totals, footer,
                   log, raised, ncalls>>

SpecAnalyze == InitAnalyze /\ [][AnalyzeCall]_vars

\* --------------------------------------------- clean_profile called by itself
InitClean == Harness("clean_call", CleanInputs)

\* clean_profile(profile, types_to_clean), with rmtree failing on faults
CleanCall ==
    /\ pc = "clean_call"
    /\ \E faults \in FaultChoices :
          LET r == clean_profile(profiles[1], args.types, faults) IN
             /\ before' = [prof |-> profiles[1], totals |-> totals]
             /\ profiles' = <<r.prof>>
             /\ log' = r.log
             /\ raised' = r.raised
    /\ pc' = "clean_returned"
    /\ ncalls' = ncalls + 1
    /\ UNCHANGED <<args, procs, chrome_procs, confirm, discovered, idx, report, totals,
                   footer>>

SpecClean == InitClean /\ [][CleanCall]_vars

\* clean_profile called again on the profile the first call left, with the
\* same list
CleanAgain ==
    /\ pc = "clean_returned"
    /\ ~raised
    /\ \E faults \in FaultChoices :
          LET r == clean_profile(profiles[1], args.types, faults) IN
             /\ before' = [prof |-> profiles[1], totals |-> totals]
             /\ profiles' = <<r.prof>>
             /\ log' = r.log
             /\ raised' = r.raised
    /\ pc' = "clean_returned_again"
    /\ ncalls' = ncalls + 1
    /\ UNCHANGED <<args, procs, chrome_procs, confirm, discovered, idx, report, totals,
                   footer>>

NextTwice == CleanCall \/ CleanAgain

SpecTwice == InitClean /\ [][NextTwice]_vars

\* ================================================================== claims
IsKnown(data_type) == data_type \in Ids

\* the recognized identifiers of a list, in order
Recognized(types) == SelectSeq(types, IsKnown)

\* the backing store of a category holds nothing to clean
Cleaned(prof, data_type) ==
    LET config == Get(data_type)
        node == prof[config.path]
    IN IF config.type = "folder" THEN ~node.exists
       ELSE ~node.exists \/ (TableExists(node, config.table) /\ CountRows(node, config.table) = 0)

\* the paths the categories of a list are stored under
RequestedPaths(types) == {Get(t).path : t \in Range(types) \cap Ids}

\* C1: whichever categories fail, clean_profile attempts every recognized
\* category of the list in order, every category that did not fail is cleaned,
\* and no exception leaves clean_profile.
C1_PartialFailureIsolation ==
    pc = "clean_returned" =>
        /\ ~raised
        /\ [j \in DOMAIN log |-> log[j].data_type] = Recognized(args.types)
        /\ \A j \in DOMAIN log :
              log[j].status # "FAILED" => Cleaned(profiles[1], log[j].data_type)

\* C1 witness: the second of three categories failed; the first and the
\* third, whose folders existed, were removed.
C1_Witness ==
    /\ pc = "clean_returned"
    /\ Len(log) = 3
    /\ log[2].status = "FAILED"
    /\ \A j \in {1, 3} :
          /\ log[j].status = "Done"
          /\ before.prof[Get(log[j].data_type).path].exists
          /\ ~profiles[1][Get(log[j].data_type).path].exists

\* C5: after clean_profile processed a tabular category whose store exists
\* and whose mapped table holds N >= 0 rows, the table holds 0 rows.
C5_RowCountZeroAfterClean ==
    pc = "clean_returned" =>
        \A t \in Range(args.types) \cap Ids :
            LET config == Get(t)
                db == before.prof[config.path]
            IN (config.type # "folder" /\ db.exists /\ db.valid /\ TableExists(db, config.table))
               => /\ TableExists(profiles[1][config.path], config.table)
                  /\ CountRows(profiles[1][config.path], config.table) = 0

\* C6: a second clean_profile call with the same list, on a profile whose
\* requested categories are already clean, succeeds for every category and
\* leaves the profile (and so its size) as it was.
C6_SecondCallSucceeds ==
    (pc = "clean_returned_again" /\ \A t \in Range(args.types) \cap Ids : Cleaned(before.prof, t))
    => /\ ~raised
       /\ \A j \in DOMAIN log : log[j].status # "FAILED"
       /\ profiles[1] = before.prof

C2_AnalyzeNoSideEffects ==
    pc = "analyze_returned" => profiles[1] = before.prof

\* C2 witness: the rows of an existing History store were counted and an
\* existing Cache folder was measured.
C2_Witness ==
    /\ pc = "analyze_returned"
    /\ "history" \in DOMAIN report
    /\ IsInt(report["history"].count)
    /\ report["history"].count.n >= 1
    /\ "cache" \in DOMAIN report
    /\ report["cache"].size >= 1

\* a count that is neither missing from the entry nor None
CountPresent(entry) == entry.has_count /\ entry.count # NoneVal

\* C7 as stated: a row count is present iff the category is tabular, its file
\* exists and the table is present; the size is 0 when the backing is absent.
C7_RowCountPresenceOriginal ==
    pc = "analyze_returned" =>
        \A t \in DOMAIN report :
            LET config == Get(t)
                node == before.prof[config.path]
            IN /\ CountPresent(report[t]) <=>
                    /\ config.type \in {"sqlite", "sqlite_nocount"}
                    /\ node.exists
                    /\ TableExists(node, config.table)
               /\ ~node.exists => report[t].size = 0

\* C7 amended: a row count is present iff the category's registry type is
\* "sqlite" (history): 0 when the file is absent or lacks the table, the
\* number of rows when the table is there, the error marker when the file is
\* no database; "sqlite_nocount" (cookies) and folders never have one.  The
\* size is always the backing's size, 0 when it is absent.
C7_RowCountPresence ==
    pc = "analyze_returned" =>
        \A t \in DOMAIN report :
            LET config == Get(t)
                node == before.prof[config.path]
            IN /\ CountPresent(report[t]) <=> config.type = "sqlite"
               /\ config.type = "sqlite" =>
                    report[t].count =
                        IF ~node.exists THEN IntVal(0)
                        ELSE IF ~node.valid THEN StrVal
                        ELSE IF TableExists(node, config.table)
                             THEN IntVal(CountRows(node, config.table))
                             ELSE IntVal(0)
               /\ report[t].size = IF node.exists THEN node.size ELSE 0

\* C7 witness: history reported with count 0 though its file is absent, and
\* cookies reported without a count though its file and table exist.
C7_Witness ==
    /\ pc = "analyze_returned"
    /\ {"history", "cookies"} \subseteq DOMAIN report
    /\ ~before.prof["History"].exists
    /\ report["history"].count = IntVal(0)
    /\ TableExists(before.prof["Network/Cookies"], "cookies")
    /\ report["cookies"].count = NoneVal
    /\ report["cookies"].size >= 1

\* C8: the keys of the report are exactly the requested identifiers that are
\* in the registry, wherever an unknown identifier stands in the list.
C8_ReportKeys ==
    pc = "analyze_returned" => DOMAIN report = Range(args.types) \cap Ids

\* C8 witness: an unknown identifier between two recognized categories, both
\* of them reported.
C8_Witness ==
    /\ pc = "analyze_returned"
    /\ Len(args.types) = 3
    /\ args.types[2] = Unknown
    /\ args.types[1] \in Ids
    /\ args.types[3] \in Ids
    /\ args.types[1] # args.types[3]
    /\ {args.types[1], args.types[3]} \subseteq DOMAIN report

\* the dry run has folded at least one report into the totals
Folded == ~args.clean /\ pc = "dry_run" /\ idx > 1

\* C9 as stated: once a report carries an error marker for a category (or the
\* running total already is no number), the running total is no number.
C9_ErrorMarkerSticky ==
    Folded =>
        \A t \in DOMAIN report :
            (report[t].count = StrVal \/ ~IsInt(before.totals[t].count))
            => ~IsInt(totals[t].count)

\* how many times an identifier is listed
Listed(t, types) == Cardinality({j \in DOMAIN types : types[j] = t})

\* C9 amended: a row count is added to the running total only when it is a
\* number, once for each time the category is listed; an error marker or None
\* leaves the running total as it was, so the running total always is a
\* number, and so is the total of the footer.
C9_ErrorMarkerSkipped ==
    /\ Folded =>
          \A t \in DOMAIN totals :
              /\ IsInt(totals[t].count)
              /\ totals[t].count.n = before.totals[t].count.n +
                    (IF t \in DOMAIN report /\ CountPresent(report[t]) /\ IsInt(report[t].count)
                     THEN report[t].count.n * Listed(t, args.types) ELSE 0)
    /\ (~args.clean /\ pc = "done") =>
          \A j \in DOMAIN footer :
              footer[j].has_count =>
                  IsInt(footer[j].count) /\ footer[j].count = totals[args.types[j]].count

\* C9 witness: the second profile's report carries the error marker after the
\* first profile's rows were added; the total is still that number.
C9_Witness ==
    /\ Folded
    /\ idx = 3
    /\ "history" \in DOMAIN report
    /\ report["history"].count = StrVal
    /\ before.totals["history"].count.n >= 1
    /\ totals["history"].count = before.totals["history"].count

\* C3: clean_profile is called only with --clean and the answer 'YES'; in any
\* other run every profile stays as it was found.
C3_CleanGated ==
    /\ ncalls > 0 => (args.clean /\ confirm = "YES")
    /\ ~(args.clean /\ confirm = "YES") => profiles = discovered

\* C3 witness: a confirmed clean run that changed a profile.
C3_Witness ==
    /\ ncalls > 0
    /\ args.clean
    /\ confirm = "YES"
    /\ profiles # discovered

\* C4: when clean_profile is called (and already when the run goes past the
\* pre-flight), no Chrome process that find_chrome_processes found is alive.
C4_NoChromeWhileCleaning ==
    (ncalls > 0 \/ pc \in {"user_data", "dry_run", "clean_prompt", "cleaning", "done"})
    => \A p \in DOMAIN procs : procs[p] # "alive"

\* C4 witness: clean_profile was called in a run that found two Chrome
\* processes running.
C4_Witness ==
    /\ ncalls > 0
    /\ Cardinality(chrome_procs) >= 2

====
